---------------------------- MODULE Spec2Model ----------------------------
(***************************************************************************)
(* Model of ColorPickerComponent (src/color-picker-component.js): the      *)
(* colour synchronisation between the saturation/lightness plane, the hue, *)
(* the RGB input fields and the HEX input field.                           *)
(*                                                                         *)
(* Strings are sequences of one-character strings.  Fractions that the     *)
(* code holds in floating point (h, s, l, the channel values before        *)
(* rounding) are held here as exact integer numerators over a common       *)
(* denominator; Math.round(v) is floor(v + 1/2).                           *)
(***************************************************************************)
EXTENDS Integers, Sequences, FiniteSets, TLC

(***************************************************************************)
(* Bounds of the model: the configured canvas sizes that are explored.     *)
(***************************************************************************)
NarrowW == 4
WideW == 15
PlaneH == 3
\* the conversions are exercised on every ChannelStride-th channel value (and
\* on the values around one and two hex digits)
ChannelStride == 32

(***************************************************************************)
(* Program constants.                                                      *)
(***************************************************************************)
DefaultLoupeX == 150
DefaultLoupeY == 75
LoupeSize == 14
LoupeLineWidth == 2
GrayTolerance == 10

(***************************************************************************)
(* Characters, digits and number <-> string conversions.                   *)
(***************************************************************************)
LowerHex == <<"0","1","2","3","4","5","6","7","8","9","a","b","c","d","e","f">>
UpperHex == <<"0","1","2","3","4","5","6","7","8","9","A","B","C","D","E","F">>

Range(s) == {s[i] : i \in 1..Len(s)}

IsDecDigit(c) == \E i \in 1..10 : LowerHex[i] = c

\* [a-f\d] and [0-9A-F] under the i flag: one hexadecimal digit of either case
IsHexDigit(c) == \E i \in 1..16 : LowerHex[i] = c \/ UpperHex[i] = c

\* value of one digit character, as parseInt(_, 16) reads it
DigitVal(c) == (CHOOSE i \in 1..16 : LowerHex[i] = c \/ UpperHex[i] = c) - 1

RECURSIVE DigitsVal(_, _)
\* value of a string of digits in the given radix (most significant first)
DigitsVal(s, radix) ==
  IF Len(s) = 0 THEN 0
  ELSE DigitsVal(SubSeq(s, 1, Len(s) - 1), radix) * radix + DigitVal(s[Len(s)])

RECURSIVE NatToString(_, _)
\* digits of a natural number in the given radix, lowercase, no padding
NatToString(n, radix) ==
  IF n < radix THEN <<LowerHex[n + 1]>>
  ELSE NatToString(n \div radix, radix) \o <<LowerHex[(n % radix) + 1]>>

\* Number.prototype.toString(radix) for an integer: a minus sign, then digits
NumberToString(n, radix) ==
  IF n < 0 THEN <<"-">> \o NatToString(-n, radix) ELSE NatToString(n, radix)

\* String.prototype.padStart(2, "0")
padStart2(s) == IF Len(s) < 2 THEN <<"0">> \o s ELSE s

RECURSIVE DigitPrefixLen(_)
\* length of the longest prefix of s made of decimal digits
DigitPrefixLen(s) ==
  IF Len(s) = 0 \/ ~IsDecDigit(s[1]) THEN 0 ELSE 1 + DigitPrefixLen(Tail(s))

\* parseInt(s): optional sign, then the longest run of decimal digits; NaN
\* when there is no digit.  The result is [nan |-> TRUE] or a number.
parseInt(s) ==
  LET neg == Len(s) > 0 /\ s[1] = "-"
      body == IF Len(s) > 0 /\ s[1] \in {"-", "+"} THEN Tail(s) ELSE s
      k == DigitPrefixLen(body)
      v == DigitsVal(SubSeq(body, 1, k), 10)
  IN IF k = 0 THEN [nan |-> TRUE, val |-> 0]
     ELSE [nan |-> FALSE, val |-> IF neg THEN -v ELSE v]

isNaN(p) == p.nan

(***************************************************************************)
(* Colour math.                                                            *)
(***************************************************************************)
Max3(a, b, c) == IF a >= b /\ a >= c THEN a ELSE IF b >= c THEN b ELSE c
Min3(a, b, c) == IF a <= b /\ a <= c THEN a ELSE IF b <= c THEN b ELSE c

\* Math.round(n / d) for d > 0: floor(n/d + 1/2)
Round(n, d) == (2 * n + d) \div (2 * d)

\* rgbToHex without the padding of one-digit channels
rgbToHex_noPadding(r, g, b) ==
  <<"#">> \o NumberToString(r, 16) \o NumberToString(g, 16)
          \o NumberToString(b, 16)

\* rgbToHex: "#" and per channel toString(16) padded to two characters
rgbToHex(r, g, b) ==
  <<"#">> \o padStart2(NumberToString(r, 16))
          \o padStart2(NumberToString(g, 16))
          \o padStart2(NumberToString(b, 16))

\* hexToRgb: /^#?([a-f\d]{2})([a-f\d]{2})([a-f\d]{2})$/i ; <<>> stands for null
hexToRgb(hex) ==
  LET body == IF Len(hex) > 0 /\ hex[1] = "#" THEN Tail(hex) ELSE hex
  IN IF Len(body) = 6 /\ \A i \in 1..6 : IsHexDigit(body[i])
     THEN <<DigitsVal(SubSeq(body, 1, 2), 16),
            DigitsVal(SubSeq(body, 3, 4), 16),
            DigitsVal(SubSeq(body, 5, 6), 16)>>
     ELSE <<>>

\* hue2rgb(p, q, t) of hslToRgb, with p = pn/dn, q = qn/dn, t = tn/360;
\* the result is a numerator over 60 * dn
hue2rgb(pn, qn, tn) ==
  LET t1 == IF tn < 0 THEN tn + 360 ELSE tn
      t2 == IF t1 > 360 THEN t1 - 360 ELSE t1
  IN IF t2 < 60 THEN 60 * pn + (qn - pn) * t2
     ELSE IF t2 < 180 THEN 60 * qn
     ELSE IF t2 < 240 THEN 60 * pn + (qn - pn) * (240 - t2)
     ELSE 60 * pn

\* hslToRgb(hue / 360, sn / sd, ln / ld), channels rounded to integers
hslToRgb(hue, sn, sd, ln, ld) ==
  IF sn = 0 THEN
    LET v == Round(255 * ln, ld) IN <<v, v, v>>
  ELSE
    LET dn == sd * ld
        qn == IF 2 * ln < ld THEN ln * (sd + sn)
              ELSE ln * sd + sn * ld - ln * sn
        pn == 2 * ln * sd - qn
    IN <<Round(255 * hue2rgb(pn, qn, hue + 120), 60 * dn),
         Round(255 * hue2rgb(pn, qn, hue), 60 * dn),
         Round(255 * hue2rgb(pn, qn, hue - 120), 60 * dn)>>

\* rgbToHsl: h, s, l as fractions <<numerator, denominator>>
rgbToHsl(r, g, b) ==
  LET max == Max3(r, g, b)
      min == Min3(r, g, b)
      d == max - min
      l == <<max + min, 510>>
  IN IF max = min THEN [h |-> <<0, 1>>, s |-> <<0, 1>>, l |-> l]
     ELSE [h |-> IF max = r
                   THEN <<(g - b) + (IF g < b THEN 6 * d ELSE 0), 6 * d>>
                 ELSE IF max = g THEN <<(b - r) + 2 * d, 6 * d>>
                 ELSE <<(r - g) + 4 * d, 6 * d>>,
           s |-> IF max + min > 255 THEN <<d, 510 - max - min>>
                 ELSE <<d, max + min>>,
           l |-> l]

\* Math.round(h * 360) for h as returned by rgbToHsl
HueDegrees(r, g, b) ==
  LET h == rgbToHsl(r, g, b).h IN Round(360 * h[1], h[2])


(***************************************************************************)
(* State.  The fields of this.state keep their names; rgbInputs and        *)
(* hexInput are the texts of the input elements; canvas is what the last   *)
(* renderCanvasWithHue drew; connected says whether the listeners are      *)
(* attached; emitted is the list of events dispatched (and callbacks       *)
(* called) by the most recent handler; lastOp names that handler, whether   *)
(* it ran to its end (done) or returned early / threw, the pointer offsets *)
(* of its event (at), the field texts it read (text) and, when it read the *)
(* canvas, the hue the canvas was rendered for and this.state.hue at the   *)
(* moment of the read (read).  held is the user's side of the mouse: which *)
(* of the plane and the hue bar has had a mousedown with no mouseup since. *)
(***************************************************************************)
VARIABLES width, height, selectedColor,
          isMouseDown, draggingHue, loupe, hue,
          rgbInputs, hexInput, canvas, connected, emitted, lastOp, held

vars == <<width, height, selectedColor,
          isMouseDown, draggingHue, loupe, hue,
          rgbInputs, hexInput, canvas, connected, emitted, lastOp, held>>

Str(n) == NumberToString(n, 10)

\* the selectedcolor attribute: absent, "300,-20,12" (out of range), "90,90"
\* (too few components).  Every component is numeric.
NoSeed == <<>>
WildSeed == <<"3", "0", "0", ",", "-", "2", "0", ",", "1", "2">>
ShortSeed == <<"9", "0", ",", "9", "0">>

\* the attribute sets (width, height, selectedcolor) that are explored
Configs ==
  { <<NarrowW, PlaneH, NoSeed>>,
    <<NarrowW, PlaneH, ShortSeed>>,
    <<WideW, PlaneH, WildSeed>> }

\* how the rasteriser leaves a pixel that the loupe ring covers only partly:
\* a blend of the plane colour and white; its two extremes are explored
EdgeBlends == {"plane", "white"}

(***************************************************************************)
(* The canvas: the plane of a hue with the loupe ring stroked over it.     *)
(***************************************************************************)
Abs(a) == IF a < 0 THEN -a ELSE a
Max2(a, b) == IF a >= b THEN a ELSE b
Min2(a, b) == IF a <= b THEN a ELSE b

\* squared distance from the point c to the nearest / farthest point of the
\* unit interval [p, p + 1], per axis
NearAxis(p, c) == Max2(0, Max2(p - c, c - (p + 1)))
FarAxis(p, c) == Max2(Abs(p - c), Abs(p + 1 - c))

\* the stroke of arc(x, y, size) with lineWidth 2 covers the annulus of radii
\* size - 1 .. size + 1; a pixel is the unit square at (px, py)
RingInner == LoupeSize - LoupeLineWidth \div 2
RingOuter == LoupeSize + LoupeLineWidth \div 2

RingNear2(px, py, cx, cy) ==
  NearAxis(px, cx) * NearAxis(px, cx) + NearAxis(py, cy) * NearAxis(py, cy)
RingFar2(px, py, cx, cy) ==
  FarAxis(px, cx) * FarAxis(px, cx) + FarAxis(py, cy) * FarAxis(py, cy)

RingFull(px, py, cx, cy) ==
  /\ RingNear2(px, py, cx, cy) >= RingInner * RingInner
  /\ RingFar2(px, py, cx, cy) <= RingOuter * RingOuter
RingTouched(px, py, cx, cy) ==
  /\ RingNear2(px, py, cx, cy) < RingOuter * RingOuter
  /\ RingFar2(px, py, cx, cy) > RingInner * RingInner

\* the colour renderCanvasWithHue computes for pixel (x, y) of a w by h plane
PlaneColor(h, x, y, w, ht) == hslToRgb(h, x, w - 1, (ht - 1) - y, ht - 1)

\* renderCanvasWithHue(hue): what the canvas then holds
renderCanvasWithHue(h, lp) ==
  [rendered |-> TRUE, hue |-> h, x |-> lp.x, y |-> lp.y]

BlankCanvas == [rendered |-> FALSE, hue |-> 0, x |-> 0, y |-> 0]

\* one pixel of the canvas as getImageData returns it: transparent black
\* outside the canvas or before any render, else the plane under the ring
CanvasPixel(cv, aa, px, py, w, ht) ==
  IF ~cv.rendered \/ px < 0 \/ py < 0 \/ px >= w \/ py >= ht THEN <<0, 0, 0>>
  ELSE LET c == PlaneColor(cv.hue, px, py, w, ht)
       IN IF RingFull(px, py, cv.x, cv.y) THEN <<255, 255, 255>>
          ELSE IF RingTouched(px, py, cv.x, cv.y) THEN
            IF aa = "plane" THEN c ELSE <<255, 255, 255>>
          ELSE c

\* getColorAt(x, y)
getColorAt(cv, aa, x, y, w, ht) == CanvasPixel(cv, aa, x, y, w, ht)

\* the outcomes of the rasteriser that a read of the given pixels can tell
\* apart: all of them when a pixel read is partly covered by the ring
EdgeOutcomes(cv, pixels) ==
  IF \E p \in pixels : /\ RingTouched(p[1], p[2], cv.x, cv.y)
                        /\ ~RingFull(p[1], p[2], cv.x, cv.y)
    THEN EdgeBlends
  ELSE {"plane"}

(***************************************************************************)
(* Helpers of the handlers.                                                *)
(***************************************************************************)
\* updateColorFields(r, g, b): the four input texts it writes
updateColorFields(r, g, b) ==
  [rgb |-> <<Str(r), Str(g), Str(b)>>, hex |-> rgbToHex(r, g, b)]

\* syncHueWithRgb keeping the hue for exact grays only
syncHueWithRgb_exactGrayOnly(h, r, g, b) ==
  IF Max3(r, g, b) = Min3(r, g, b) THEN h
  ELSE HueDegrees(r, g, b)

\* syncHueWithRgb(r, g, b): the hue it leaves in this.state.hue
syncHueWithRgb(h, r, g, b) ==
  IF Max3(r, g, b) - Min3(r, g, b) < GrayTolerance THEN h
  ELSE HueDegrees(r, g, b)

\* fireColorChange dispatching its event a second time
fireColorChange_twice(r, g, b) ==
  <<[type |-> "color-change", detail |-> <<r, g, b, rgbToHex(r, g, b)>>],
    [type |-> "color-change", detail |-> <<r, g, b, rgbToHex(r, g, b)>>]>>

\* fireColorChange({r, g, b}): the "color-change" event it dispatches (the
\* onColorChange callback, when one is set, is handed the same detail)
fireColorChange(r, g, b) ==
  <<[type |-> "color-change", detail |-> <<r, g, b, rgbToHex(r, g, b)>>]>>

ReadyEvent == [type |-> "ready", detail |-> <<>>]

\* ctx.getImageData(0, 0, width, height).data, one colour per pixel index
ImageData(cv, aa, w, ht) ==
  [i \in 0..(w * ht - 1) |-> CanvasPixel(cv, aa, i % w, i \div w, w, ht)]

\* the inner loop of syncLoupeToColor without its grayscale check
ScanPixel_noGrayCheck(best, x, y, p, target) ==
  LET dist == (p[1] - target[1]) * (p[1] - target[1])
            + (p[2] - target[2]) * (p[2] - target[2])
            + (p[3] - target[3]) * (p[3] - target[3])
  IN IF best[3] = -1 \/ dist < best[3] THEN <<x, y, dist>> ELSE best

\* the body of the inner loop of syncLoupeToColor for the pixel p at (x, y),
\* with best = <<bestX, bestY, bestDist>>; bestDist = -1 stands for Infinity
ScanPixel(best, x, y, p, target) ==
  LET isGray == p[1] = p[2] /\ p[2] = p[3]
      targetIsGrayscale == target[1] = target[2] /\ target[2] = target[3]
      dist == (p[1] - target[1]) * (p[1] - target[1])
            + (p[2] - target[2]) * (p[2] - target[2])
            + (p[3] - target[3]) * (p[3] - target[3])
  IN IF targetIsGrayscale /\ ~isGray THEN best
     ELSE IF best[3] = -1 \/ dist < best[3] THEN <<x, y, dist>>
     ELSE best

RECURSIVE ScanFrom(_, _, _, _, _, _)
\* the two loops of syncLoupeToColor from pixel index i on (row-major); both
\* loops end as soon as bestDist is 0
ScanFrom(i, best, data, target, w, ht) ==
  IF i >= w * ht \/ best[3] = 0 THEN best
  ELSE ScanFrom(i + 1, ScanPixel(best, i % w, i \div w, data[i], target),
                data, target, w, ht)

\* syncLoupeToColor(r, g, b): the loupe position it stores
syncLoupeToColor(cv, aa, r, g, b, w, ht) ==
  LET best == ScanFrom(0, <<0, 0, -1>>, ImageData(cv, aa, w, ht),
                       <<r, g, b>>, w, ht)
  IN [x |-> best[1], y |-> best[2]]

Clamp(v, lo, hi) == Max2(lo, Min2(hi, v))

(***************************************************************************)
(* Inputs.                                                                 *)
(***************************************************************************)
\* pointer offsets (clientX - rect.left, clientY - rect.top) over the plane,
\* some of them outside it
PlaneXs == {width \div 4, width}
PlaneYs == {-1, height \div 2}

\* pointer offsets over the hue bar
HueXs == {width \div 2, width}

\* a field the user leaves as it is
Keep == <<"keep">>

\* what the user types into the three RGB fields before the change event
RgbEdits ==
  { << <<"0">>, <<"2","5","5">>, <<"0">> >>,
    << <<"1","2","8">>, <<"1","2","8">>, <<"1","2","8">> >>,
    << <<"1","2","8">>, <<"1","2","8">>, <<"1","3","3">> >>,
    << <<"3","0","0">>, <<"0">>, <<"0">> >>,
    << <<>>, Keep, Keep >> }

\* what the user types into the HEX field before the change event
HexEdits ==
  { <<"#","F","F","0","0","0","1">>,
    <<"0","0","f","f","0","0">>,
    <<"Z","Z","Z","Z","Z","Z">> }

(***************************************************************************)
(* The handlers, each as the values it leaves behind.                      *)
(***************************************************************************)
\* the texts of the RGB fields once the user has typed the edit
Typed(edit) == [i \in 1..3 |-> IF edit[i] = Keep THEN rgbInputs[i] ELSE edit[i]]

RECURSIVE Split(_)
\* String.prototype.split(','): the components between the commas
Split(s) ==
  IF \A i \in 1..Len(s) : s[i] # ","
    THEN <<s>>
  ELSE LET k == CHOOSE i \in 1..Len(s) :
                  s[i] = "," /\ \A j \in 1..(i - 1) : s[j] # ","
       IN <<SubSeq(s, 1, k - 1)>> \o Split(SubSeq(s, k + 1, Len(s)))

\* Number(token) for a token made of an optional minus sign and digits
ToNumber(tok) ==
  IF Len(tok) > 0 /\ tok[1] = "-" THEN -DigitsVal(Tail(tok), 10)
  ELSE DigitsVal(tok, 10)

\* updateLoupeFromEvent resyncing the hue on every sample, drags included
updateLoupeFromEvent_alwaysSyncs(ex, ey, allowHueSync, aa) ==
  LET lp == [x |-> Clamp(ex, 0, width - 1), y |-> Clamp(ey, 0, height - 1)]
      cv == renderCanvasWithHue(hue, lp)
      c == getColorAt(cv, aa, lp.x, lp.y, width, height)
      f == updateColorFields(c[1], c[2], c[3])
  IN [loupe |-> lp, canvas |-> cv, rgb |-> f.rgb, hex |-> f.hex,
      hue |-> syncHueWithRgb(hue, c[1], c[2], c[3]),
      emitted |-> fireColorChange(c[1], c[2], c[3]),
      done |-> TRUE,
      read |-> <<cv.hue, hue>>]

\* updateLoupeFromEvent(e, allowHueSync)
updateLoupeFromEvent(ex, ey, allowHueSync, aa) ==
  LET x == Clamp(ex, 0, width - 1)
      y == Clamp(ey, 0, height - 1)
  IN IF x < 0 \/ y < 0 \/ x >= width \/ y >= height
       THEN [loupe |-> loupe, canvas |-> canvas, rgb |-> rgbInputs,
             hex |-> hexInput, hue |-> hue, emitted |-> <<>>, done |-> FALSE,
             read |-> <<>>]
     ELSE
       LET lp == [x |-> x, y |-> y]
           cv == renderCanvasWithHue(hue, lp)
           c == getColorAt(cv, aa, x, y, width, height)
           f == updateColorFields(c[1], c[2], c[3])
       IN [loupe |-> lp, canvas |-> cv, rgb |-> f.rgb, hex |-> f.hex,
           hue |-> IF allowHueSync THEN syncHueWithRgb(hue, c[1], c[2], c[3])
                   ELSE hue,
           emitted |-> fireColorChange(c[1], c[2], c[3]),
           done |-> TRUE,
           read |-> <<cv.hue, hue>>]

\* updateHueFromEvent sampling the canvas before rendering it for the new hue
updateHueFromEvent_samplesBeforeRender(ex, aa) ==
  LET x == Clamp(ex, 0, width - 1)
      h == Round(x * 360, width)
      c == getColorAt(canvas, aa, loupe.x, loupe.y, width, height)
      f == updateColorFields(c[1], c[2], c[3])
  IN [loupe |-> loupe, canvas |-> renderCanvasWithHue(h, loupe),
      rgb |-> f.rgb, hex |-> f.hex, hue |-> h,
      emitted |-> fireColorChange(c[1], c[2], c[3]),
      done |-> TRUE,
      read |-> <<canvas.hue, h>>]

\* updateHueFromEvent storing the hue of the colour it sampled instead of the
\* hue of the pointer
updateHueFromEvent_storesSampledHue(ex, aa) ==
  LET x == Clamp(ex, 0, width - 1)
      h == Round(x * 360, width)
      cv == renderCanvasWithHue(h, loupe)
      c == getColorAt(cv, aa, loupe.x, loupe.y, width, height)
      f == updateColorFields(c[1], c[2], c[3])
  IN [loupe |-> loupe, canvas |-> cv, rgb |-> f.rgb, hex |-> f.hex,
      hue |-> syncHueWithRgb(hue, c[1], c[2], c[3]),
      emitted |-> fireColorChange(c[1], c[2], c[3]),
      done |-> TRUE,
      read |-> <<cv.hue, h>>]

\* updateHueFromEvent(e)
updateHueFromEvent(ex, aa) ==
  LET x == Clamp(ex, 0, width - 1)
      h == Round(x * 360, width)
      cv == renderCanvasWithHue(h, loupe)
      c == getColorAt(cv, aa, loupe.x, loupe.y, width, height)
      f == updateColorFields(c[1], c[2], c[3])
  IN [loupe |-> loupe, canvas |-> cv, rgb |-> f.rgb, hex |-> f.hex, hue |-> h,
      emitted |-> fireColorChange(c[1], c[2], c[3]),
      done |-> TRUE,
      read |-> <<cv.hue, h>>]

\* the continuation shared by handleRgbInput and handleHexInput once the
\* input has passed its gate
CommitColor(r, g, b, aa) ==
  LET f == updateColorFields(r, g, b)
      h == syncHueWithRgb(hue, r, g, b)
      cv == renderCanvasWithHue(h, loupe)
      lp == syncLoupeToColor(cv, aa, r, g, b, width, height)
  IN [loupe |-> lp, canvas |-> renderCanvasWithHue(h, lp), rgb |-> f.rgb,
      hex |-> f.hex, hue |-> h,
      emitted |-> fireColorChange(r, g, b),
      done |-> TRUE,
      read |-> <<cv.hue, h>>]

\* handleRgbInput reading an unparsable field as 0 instead of returning
handleRgbInput_blankIsZero(texts, aa) ==
  LET r == parseInt(texts[1])
      g == parseInt(texts[2])
      b == parseInt(texts[3])
  IN CommitColor(r.val, g.val, b.val, aa)

\* handleRgbInput(), the RGB fields holding texts
handleRgbInput(texts, aa) ==
  LET r == parseInt(texts[1])
      g == parseInt(texts[2])
      b == parseInt(texts[3])
  IN IF isNaN(r) \/ isNaN(g) \/ isNaN(b)
       THEN [loupe |-> loupe, canvas |-> canvas, rgb |-> texts,
             hex |-> hexInput, hue |-> hue, emitted |-> <<>>, done |-> FALSE,
             read |-> <<>>]
     ELSE CommitColor(r.val, g.val, b.val, aa)

\* the gate of handleHexInput: /^#[0-9A-F]{6}$/i
HexGate(text) ==
  /\ Len(text) = 7
  /\ text[1] = "#"
  /\ \A i \in 2..7 : IsHexDigit(text[i])

\* handleHexInput(), the HEX field holding text
handleHexInput(text, aa) ==
  IF ~HexGate(text)
    THEN [loupe |-> loupe, canvas |-> canvas, rgb |-> rgbInputs,
          hex |-> text, hue |-> hue, emitted |-> <<>>, done |-> FALSE,
          read |-> <<>>]
  ELSE LET rgb == hexToRgb(text)
       IN CommitColor(rgb[1], rgb[2], rgb[3], aa)

\* initializeDefaultColorFromCanvas(), the canvas holding cv
initializeDefaultColorFromCanvas(cv, aa) ==
  LET c == getColorAt(cv, aa, loupe.x, loupe.y, width, height)
      f == updateColorFields(c[1], c[2], c[3])
  IN [loupe |-> loupe, canvas |-> cv, rgb |-> f.rgb, hex |-> f.hex,
      hue |-> syncHueWithRgb(hue, c[1], c[2], c[3]),
      emitted |-> fireColorChange(c[1], c[2], c[3]),
      done |-> TRUE,
      read |-> <<cv.hue, hue>>]

\* updateSelectedColor(rgbString), the canvas holding cv.  With fewer than
\* three components g or b is undefined: the fields are assigned, then
\* rgbToHex throws on undefined.toString and the caller is abandoned.
updateSelectedColor(rgbString, cv) ==
  LET parts == Split(rgbString)
      n == [i \in 1..Len(parts) |-> ToNumber(parts[i])]
  IN IF Len(parts) < 3
       THEN [loupe |-> loupe, canvas |-> cv,
             rgb |-> [i \in 1..3 |-> IF i <= Len(parts) THEN Str(n[i]) ELSE <<>>],
             hex |-> <<>>, hue |-> hue, emitted |-> <<>>, done |-> FALSE,
             read |-> <<>>]
     ELSE
       LET f == updateColorFields(n[1], n[2], n[3])
           h == syncHueWithRgb(hue, n[1], n[2], n[3])
       IN [loupe |-> loupe, canvas |-> renderCanvasWithHue(h, loupe),
           rgb |-> f.rgb, hex |-> f.hex, hue |-> h,
           emitted |-> fireColorChange(n[1], n[2], n[3]),
           done |-> TRUE,
           read |-> <<>>]

\* connectedCallback(): fresh markup, listeners, first render, first colour,
\* then the "ready" event unless updateSelectedColor threw
connectedCallbackBody(aa) ==
  LET cv == renderCanvasWithHue(hue, loupe)
      e == IF selectedColor # <<>> THEN updateSelectedColor(selectedColor, cv)
           ELSE initializeDefaultColorFromCanvas(cv, aa)
  IN [e EXCEPT !.emitted = IF e.done THEN e.emitted \o <<ReadyEvent>>
                           ELSE e.emitted]

\* the assignments a handler's result stands for
Apply(e, op, at, text) ==
  /\ loupe' = e.loupe
  /\ canvas' = e.canvas
  /\ rgbInputs' = e.rgb
  /\ hexInput' = e.hex
  /\ hue' = e.hue
  /\ emitted' = e.emitted
  /\ lastOp' = [op |-> op, done |-> e.done, at |-> at, text |-> text,
                read |-> e.read]

Idle(op, done) ==
  /\ emitted' = <<>>
  /\ lastOp' = [op |-> op, done |-> done, at |-> <<>>, text |-> <<>>,
                read |-> <<>>]
  /\ UNCHANGED <<loupe, canvas, rgbInputs, hexInput, hue>>

Config == <<width, height, selectedColor>>

AllPixels == (0..(width - 1)) \X (0..(height - 1))

\* rasteriser outcomes that matter to a handler: the ring it reads is the one
\* stroked by the render that precedes the read, around the loupe of then
ScanOutcomes == EdgeOutcomes([x |-> loupe.x, y |-> loupe.y], AllPixels)
PointerOutcomes(ex, ey) ==
  LET x == Clamp(ex, 0, width - 1)
      y == Clamp(ey, 0, height - 1)
  IN EdgeOutcomes([x |-> x, y |-> y], {<<x, y>>})

(***************************************************************************)
(* Actions.                                                                *)
(***************************************************************************)
Init ==
  /\ \E c \in Configs : width = c[1] /\ height = c[2] /\ selectedColor = c[3]
  /\ isMouseDown = FALSE
  /\ draggingHue = FALSE
  /\ loupe = [x |-> DefaultLoupeX, y |-> DefaultLoupeY]
  /\ hue = 0
  /\ rgbInputs = << <<>>, <<>>, <<>> >>
  /\ hexInput = <<>>
  /\ canvas = BlankCanvas
  /\ connected = FALSE
  /\ emitted = <<>>
  /\ lastOp = [op |-> "constructor", done |-> TRUE, at |-> <<>>, text |-> <<>>,
               read |-> <<>>]
  /\ held = [plane |-> FALSE, hue |-> FALSE]

connectedCallback ==
  /\ ~connected
  /\ connected' = TRUE
  /\ \E aa \in EdgeOutcomes(renderCanvasWithHue(hue, loupe),
                             {<<loupe.x, loupe.y>>}) :
       \E e \in {connectedCallbackBody(aa)} :
         Apply(e, "connectedCallback", <<>>, <<>>)
  /\ UNCHANGED <<Config, held, isMouseDown, draggingHue>>

disconnectedCallback ==
  /\ connected
  /\ connected' = FALSE
  /\ Idle("disconnectedCallback", TRUE)
  /\ UNCHANGED <<Config, held, isMouseDown, draggingHue>>

onMouseDown ==
  /\ connected
  /\ isMouseDown' = TRUE
  /\ \E ex \in PlaneXs, ey \in PlaneYs :
       \E aa \in PointerOutcomes(ex, ey) :
         \E e \in {updateLoupeFromEvent(ex, ey, TRUE, aa)} :
           Apply(e, "onMouseDown", <<ex, ey>>, <<>>)
  /\ UNCHANGED <<Config, connected, draggingHue>>
  /\ held' = [held EXCEPT !.plane = TRUE]

onMouseMove ==
  /\ connected
  /\ IF ~isMouseDown THEN Idle("onMouseMove", FALSE)
     ELSE \E ex \in PlaneXs, ey \in PlaneYs :
            \E aa \in PointerOutcomes(ex, ey) :
              \E e \in {updateLoupeFromEvent(ex, ey, FALSE, aa)} :
                Apply(e, "onMouseMove", <<ex, ey>>, <<>>)
  /\ UNCHANGED <<Config, held, connected, isMouseDown, draggingHue>>

\* a mouseup on the document runs onMouseUp and onHueMouseUp
onMouseUp ==
  /\ connected
  /\ isMouseDown' = FALSE
  /\ draggingHue' = FALSE
  /\ Idle("onMouseUp", TRUE)
  /\ UNCHANGED <<Config, connected>>
  /\ held' = [plane |-> FALSE, hue |-> FALSE]

\* a mouseup while the component is disconnected: detachEventListeners has
\* removed the document listeners, no handler runs.  The release is drawn
\* on the narrow plane only, which keeps the state space small.
mouseUpDetached ==
  /\ ~connected
  /\ width = NarrowW
  /\ held.plane \/ held.hue
  /\ held' = [plane |-> FALSE, hue |-> FALSE]
  /\ Idle("mouseUpDetached", FALSE)
  /\ UNCHANGED <<Config, connected, isMouseDown, draggingHue>>

onHueMouseDown ==
  /\ connected
  /\ draggingHue' = TRUE
  /\ \E ex \in HueXs :
       \E aa \in EdgeOutcomes(canvas, {<<loupe.x, loupe.y>>}) :
         \E e \in {updateHueFromEvent(ex, aa)} :
           Apply(e, "onHueMouseDown", <<ex>>, <<>>)
  /\ UNCHANGED <<Config, connected, isMouseDown>>
  /\ held' = [held EXCEPT !.hue = TRUE]

onHueMouseMove ==
  /\ connected
  /\ IF ~draggingHue THEN Idle("onHueMouseMove", FALSE)
     ELSE \E ex \in HueXs :
            \E aa \in EdgeOutcomes(canvas, {<<loupe.x, loupe.y>>}) :
              \E e \in {updateHueFromEvent(ex, aa)} :
                Apply(e, "onHueMouseMove", <<ex>>, <<>>)
  /\ UNCHANGED <<Config, held, connected, isMouseDown, draggingHue>>

\* the user edits RGB fields and the change event runs handleRgbInput
RgbChange ==
  /\ connected
  /\ \E edit \in RgbEdits, aa \in ScanOutcomes :
       \E e \in {handleRgbInput(Typed(edit), aa)} :
         Apply(e, "handleRgbInput", <<>>, Typed(edit))
  /\ UNCHANGED <<Config, held, connected, isMouseDown, draggingHue>>

\* the user edits the HEX field and the change event runs handleHexInput
HexChange ==
  /\ connected
  /\ \E text \in HexEdits, aa \in ScanOutcomes :
       \E e \in {handleHexInput(text, aa)} :
         Apply(e, "handleHexInput", <<>>, <<text>>)
  /\ UNCHANGED <<Config, held, connected, isMouseDown, draggingHue>>

Next ==
  \/ connectedCallback
  \/ disconnectedCallback
  \/ onMouseDown
  \/ onMouseMove
  \/ onMouseUp
  \/ mouseUpDetached
  \/ onHueMouseDown
  \/ onHueMouseMove
  \/ RgbChange
  \/ HexChange

Spec == Init /\ [][Next]_vars

(***************************************************************************)
(* Properties.  The component keeps no colour of its own: the colour is    *)
(* what the RGB fields and the HEX field show.                             *)
(***************************************************************************)
FieldsNumeric(f) == \A i \in 1..3 : ~isNaN(parseInt(f[i]))
FieldColor(f) == <<parseInt(f[1]).val, parseInt(f[2]).val, parseInt(f[3]).val>>
Spread(c) == Max3(c[1], c[2], c[3]) - Min3(c[1], c[2], c[3])

IsColorChange(e) == e.type = "color-change"
ColorChanges(ev) == SelectSeq(ev, IsColorChange)

\* the handlers behind the entry points that edit the colour
EditOps ==
  {"connectedCallback", "onMouseDown", "onMouseMove", "onHueMouseDown",
   "onHueMouseMove", "handleRgbInput", "handleHexInput"}

\* C1: an entry point that accepts its input (initialization, plane press,
\* plane drag, hue-bar press or drag, RGB commit, hex commit run to the end)
\* dispatches exactly one color-change; its r, g, b are the values the
\* fields show when the handler ends and its hex is rgbToHex(r, g, b).
C1_SingleNotification ==
  (lastOp.op \in EditOps /\ lastOp.done) =>
    LET cc == ColorChanges(emitted)
    IN /\ Len(cc) = 1
       /\ cc[1].detail[4] =
            rgbToHex(cc[1].detail[1], cc[1].detail[2], cc[1].detail[3])
       /\ rgbInputs =
            <<Str(cc[1].detail[1]), Str(cc[1].detail[2]), Str(cc[1].detail[3])>>
       /\ hexInput = cc[1].detail[4]

\* a hex commit has dispatched one color-change for (255, 0, 1)
C1_Witness ==
  /\ lastOp.op = "handleHexInput"
  /\ lastOp.done
  /\ Len(ColorChanges(emitted)) = 1
  /\ emitted[1].detail = <<255, 0, 1, <<"#","f","f","0","0","0","1">> >>

\* a commit the claim calls rejected: an RGB commit with a field that holds
\* no number, a hex commit of a text that is not six hex digits
RejectedCommit(op) ==
  \/ /\ op.op = "handleRgbInput"
     /\ \E i \in 1..3 : isNaN(parseInt(op.text[i]))
  \/ /\ op.op = "handleHexInput"
     /\ hexToRgb(op.text[1]) = <<>>

\* C2: a rejected commit leaves hue, plane position and canvas as they were
\* and dispatches nothing; the colour stays too: the handler writes no field
\* (the RGB fields keep their texts through a rejected hex commit, the HEX
\* field keeps its text through a rejected RGB commit).
C2_RejectedCommitIsNoOp ==
  [][RejectedCommit(lastOp') =>
       /\ UNCHANGED <<hue, loupe, canvas>>
       /\ emitted' = <<>>
       /\ ~lastOp'.done
       /\ lastOp'.op = "handleHexInput" => rgbInputs' = rgbInputs
       /\ lastOp'.op = "handleRgbInput" => hexInput' = hexInput]_vars

\* "ZZZZZZ" has been rejected while the picker shows a chromatic colour with
\* a hue other than the initial one
C2_Witness ==
  /\ lastOp.op = "handleHexInput"
  /\ RejectedCommit(lastOp)
  /\ hexInput = <<"Z","Z","Z","Z","Z","Z">>
  /\ FieldsNumeric(rgbInputs)
  /\ Spread(FieldColor(rgbInputs)) >= GrayTolerance
  /\ hue # 0

CommitOps == {"handleRgbInput", "handleHexInput"}
HueBarOps == {"onHueMouseDown", "onHueMouseMove"}

\* the colour a commit was given
Committed(op) ==
  IF op.op = "handleRgbInput" THEN FieldColor(op.text) ELSE hexToRgb(op.text[1])

\* the hue rule: the hue of the colour c when its channels spread by the
\* tolerance or more, else the hue h of before
HueRule(h, c) ==
  IF Spread(c) >= GrayTolerance THEN HueDegrees(c[1], c[2], c[3]) ELSE h

\* C3: after an accepted RGB or hex commit of (r, g, b) the hue is
\* round(rgbToHsl(r, g, b).h * 360) when max - min >= 10 and the hue of
\* before the commit otherwise; (255,0,0), (0,255,0), (0,0,255) give 0, 120,
\* 240.
C3_HueResyncOnCommit ==
  [][(lastOp'.op \in CommitOps /\ lastOp'.done) =>
       /\ hue' = HueRule(hue, Committed(lastOp'))
       /\ syncHueWithRgb(hue, 255, 0, 0) = 0
       /\ syncHueWithRgb(hue, 0, 255, 0) = 120
       /\ syncHueWithRgb(hue, 0, 0, 255) = 240]_vars

\* (128, 128, 133) has been committed and the hue is still the 120 that an
\* earlier commit of (0, 255, 0) gave
C3_Witness ==
  /\ lastOp.op = "handleRgbInput"
  /\ lastOp.done
  /\ Committed(lastOp) = <<128, 128, 133>>
  /\ hue = 120

\* C4 as stated: after every completed operation (initialization, plane
\* press, plane drag, hue-bar press or drag, RGB commit, hex commit) the hue
\* is round(rgbToHsl(r, g, b).h * 360) of the resulting colour when its
\* max - min >= 10, and the hue of before otherwise.
C4_HueRuleAfterEveryOp ==
  [][(lastOp'.op \in EditOps /\ lastOp'.done) =>
       hue' = HueRule(hue, FieldColor(rgbInputs'))]_vars

\* C4 amended: the hue rule holds after initialization, a plane press, an
\* RGB commit and a hex commit; a plane drag leaves the hue as it was; a
\* hue-bar press or drag sets the hue to round(x / width * 360) for the
\* clamped pointer x, whatever colour results.
C4_HueRulePerOp ==
  [][lastOp'.done =>
       /\ lastOp'.op \in {"connectedCallback", "onMouseDown"} \cup CommitOps =>
            hue' = HueRule(hue, FieldColor(rgbInputs'))
       /\ lastOp'.op = "onMouseMove" => hue' = hue
       /\ lastOp'.op \in HueBarOps =>
            hue' = Round(Clamp(lastOp'.at[1], 0, width - 1) * 360, width)]_vars

\* a hue-bar press has moved the hue while the colour it sampled is a gray
C4_Witness ==
  /\ lastOp.op = "onHueMouseDown"
  /\ lastOp.done
  /\ loupe.x \in 0..(width - 1)
  /\ loupe.y \in 0..(height - 1)
  /\ Spread(FieldColor(rgbInputs)) < GrayTolerance
  /\ hue = 180

\* C5: a plane drag leaves the hue as it was, whatever it samples, and the
\* colour it samples is the one of the plane of that hue at the clamped
\* pointer.
C5_DragKeepsHue ==
  [][(lastOp'.op = "onMouseMove" /\ lastOp'.done) =>
       /\ hue' = hue
       /\ canvas'.rendered /\ canvas'.hue = hue
       /\ loupe' = [x |-> Clamp(lastOp'.at[1], 0, width - 1),
                    y |-> Clamp(lastOp'.at[2], 0, height - 1)]
       /\ FieldColor(rgbInputs') =
            PlaneColor(hue, loupe'.x, loupe'.y, width, height)]_vars

\* a drag has sampled a chromatic colour whose own hue is not the stored hue
C5_Witness ==
  /\ lastOp.op = "onMouseMove"
  /\ lastOp.done
  /\ Spread(FieldColor(rgbInputs)) >= GrayTolerance
  /\ HueDegrees(FieldColor(rgbInputs)[1], FieldColor(rgbInputs)[2],
                FieldColor(rgbInputs)[3]) # hue

\* C6: a hue-bar press or drag at x sets the hue to round(x / width * 360),
\* leaves the plane position as it was and makes the colour the one of the
\* plane of the new hue at that position.
C6_HueBarResamples ==
  [][(lastOp'.op \in HueBarOps /\ lastOp'.done) =>
       /\ hue' = Round(Clamp(lastOp'.at[1], 0, width - 1) * 360, width)
       /\ loupe' = loupe
       /\ FieldColor(rgbInputs') =
            PlaneColor(hue', loupe.x, loupe.y, width, height)]_vars

\* C7: the plane position is inside the plane in every reachable state, the
\* initial one included.
C7_PositionInsidePlane ==
  /\ loupe.x \in 0..(width - 1)
  /\ loupe.y \in 0..(height - 1)

\* C8: every channel the fields show, and every channel a color-change
\* carries, is an integer of 0..255.
C8_ChannelsInRange ==
  /\ FieldsNumeric(rgbInputs) =>
       \A i \in 1..3 : FieldColor(rgbInputs)[i] \in 0..255
  /\ \A k \in 1..Len(emitted) :
       IsColorChange(emitted[k]) =>
         \A i \in 1..3 : emitted[k].detail[i] \in 0..255

\* C9: once an entry point has run, accepting its input or not, the HEX
\* field is rgbToHex of the colour the RGB fields show.
C9_HexFieldMatchesRgbFields ==
  (lastOp.op \in EditOps /\ (lastOp.done \/ lastOp.op \in CommitOps)) =>
    /\ FieldsNumeric(rgbInputs)
    /\ LET c == FieldColor(rgbInputs)
       IN hexInput = rgbToHex(c[1], c[2], c[3])

\* C10: a hex commit is accepted exactly when hexToRgb accepts its text; an
\* accepted one sets the colour and dispatches one color-change, any other
\* is ignored.
C10_HexCommitGateIsHexToRgb ==
  lastOp.op = "handleHexInput" =>
    IF hexToRgb(lastOp.text[1]) # <<>>
      THEN /\ lastOp.done
           /\ FieldColor(rgbInputs) = hexToRgb(lastOp.text[1])
           /\ Len(ColorChanges(emitted)) = 1
    ELSE ~lastOp.done /\ emitted = <<>>

IsGray(c) == c[1] = c[2] /\ c[2] = c[3]
Dist2(c, t) ==
  (c[1] - t[1]) * (c[1] - t[1]) + (c[2] - t[2]) * (c[2] - t[2])
  + (c[3] - t[3]) * (c[3] - t[3])

\* C11: after an accepted commit of a target with r = g = b the plane
\* position is one whose pixel, as the search scanned it (the plane of the
\* new hue with the ring around the position of before, however the
\* rasteriser blended the ring's edge), is gray; so is the pixel of the
\* plane itself.
C11_GrayTargetLandsOnGray ==
  [][(lastOp'.op \in CommitOps /\ lastOp'.done
        /\ IsGray(Committed(lastOp'))) =>
       /\ \A aa \in EdgeBlends :
            IsGray(CanvasPixel(renderCanvasWithHue(hue', loupe), aa,
                               loupe'.x, loupe'.y, width, height))
       /\ IsGray(PlaneColor(hue', loupe'.x, loupe'.y, width, height))]_vars

\* a gray has been committed and some non-gray pixel of the plane is nearer
\* to it than the pixel at the position the search chose
C11_Witness ==
  /\ lastOp.op \in CommitOps
  /\ lastOp.done
  /\ IsGray(Committed(lastOp))
  /\ \E p \in AllPixels :
       /\ ~IsGray(PlaneColor(hue, p[1], p[2], width, height))
       /\ Dist2(PlaneColor(hue, p[1], p[2], width, height), Committed(lastOp))
            < Dist2(PlaneColor(hue, loupe.x, loupe.y, width, height),
                    Committed(lastOp))

\* the first position in row-major order that minimises the squared distance
\* to target among the eligible pixels of the plane of hue h
PlaneNearest(h, target) ==
  LET color == [p \in AllPixels |-> PlaneColor(h, p[1], p[2], width, height)]
      eligible == {p \in AllPixels : IsGray(target) => IsGray(color[p])}
      d == [p \in eligible |-> Dist2(color[p], target)]
      index == [p \in eligible |-> p[2] * width + p[1]]
  IN CHOOSE p \in eligible :
       \A q \in eligible :
         d[p] < d[q] \/ (d[p] = d[q] /\ index[p] <= index[q])

\* C12: an accepted commit moves the plane position to the first position in
\* row-major order that minimises the squared distance to the target among
\* the eligible pixels of the plane of the current hue; when the target is a
\* colour of that plane, the position samples to the target.
C12_SearchReturnsPlaneNearest ==
  [][(lastOp'.op \in CommitOps /\ lastOp'.done) =>
       /\ loupe' = [x |-> PlaneNearest(hue', Committed(lastOp'))[1],
                    y |-> PlaneNearest(hue', Committed(lastOp'))[2]]
       /\ (\E p \in AllPixels :
             PlaneColor(hue', p[1], p[2], width, height) = Committed(lastOp'))
           => PlaneColor(hue', loupe'.x, loupe'.y, width, height)
                = Committed(lastOp')]_vars

\* C13: whenever a handler reads the canvas (one pixel or the whole scan),
\* the canvas was last rendered for the hue this.state.hue holds at that
\* moment, and it was rendered by that same handler.
C13_ReadsSeeCurrentHue ==
  [][lastOp'.read # <<>> =>
       /\ lastOp'.read[1] = lastOp'.read[2]
       /\ lastOp'.op \in HueBarOps \cup CommitOps => lastOp'.read[1] = hue'
       /\ lastOp'.op \in {"onMouseDown", "onMouseMove", "connectedCallback"}
            => lastOp'.read[1] = hue]_vars

\* a hue-bar drag to hue 336 has read the canvas, rendered for 336, and has
\* sampled a chromatic colour
C13_Witness ==
  /\ lastOp.op = "onHueMouseMove"
  /\ lastOp.read = <<336, 336>>
  /\ hue = 336
  /\ Spread(FieldColor(rgbInputs)) >= GrayTolerance

IsReady(e) == e.type = "ready"

\* C14: every connect, whatever the selectedcolor attribute holds, dispatches
\* "ready" exactly once, after the color-change that notifies the first
\* colour of that connect.
C14_ReadyOncePerConnect ==
  lastOp.op = "connectedCallback" =>
    /\ Len(SelectSeq(emitted, IsReady)) = 1
    /\ Len(emitted) = 2
    /\ IsColorChange(emitted[1])
    /\ IsReady(emitted[2])

\* the colour a selectedcolor attribute of three numbers stands for
SeedColor ==
  <<ToNumber(Split(selectedColor)[1]), ToNumber(Split(selectedColor)[2]),
    ToNumber(Split(selectedColor)[3])>>

SeededConnect(op) ==
  op.op = "connectedCallback" /\ op.done /\ selectedColor # NoSeed

\* C15: a connect with a seed makes the colour the parsed seed and leaves
\* the plane position where it was (the default position on the first
\* connect); the next render of the plane for a new hue, which a hue-bar
\* press or drag brings, relocates the position to the seed colour's nearest
\* match.
C15_SeedRelocatesAtNextRender ==
  [][/\ SeededConnect(lastOp') =>
          /\ FieldColor(rgbInputs') = SeedColor
          /\ loupe' = loupe
          /\ lastOp.op = "constructor" =>
               loupe' = [x |-> DefaultLoupeX, y |-> DefaultLoupeY]
     /\ (SeededConnect(lastOp) /\ lastOp'.op \in HueBarOps) =>
          loupe' = [x |-> PlaneNearest(hue', SeedColor)[1],
                    y |-> PlaneNearest(hue', SeedColor)[2]]]_vars

(***************************************************************************)
(* The conversions rgbToHex and hexToRgb on their own: a second            *)
(* specification that starts from sampled inputs.  hexInput ends as        *)
(* rgbToHex(hexToRgb(s)), rgbInputs as the channels of                     *)
(* hexToRgb(rgbToHex(r, g, b)); lastOp keeps the input.                    *)
(***************************************************************************)
MaxChannel == 255

Channels ==
  {c \in 0..MaxChannel :
     c % ChannelStride = 0 \/ c \in {1, 9, 10, 15, 16, 17, 254, 255}}

\* two-digit groups a hex text is made of, in both cases
HexPairs ==
  { <<"0","0">>, <<"0","a">>, <<"A","0">>, <<"f","F">>, <<"F","f">>,
    <<"7","b">>, <<"C","3">> }

HexTexts ==
  {p \o q \o r : p \in HexPairs, q \in HexPairs, r \in HexPairs}
  \cup {<<"#">> \o p \o q \o r : p \in {<<"0","0">>, <<"F","f">>, <<"C","3">>},
                                  q \in HexPairs, r \in HexPairs}

\* the state before a conversion: a hex text in the HEX field, or three
\* channels in the RGB fields
ConvInit ==
  /\ width = NarrowW /\ height = PlaneH /\ selectedColor = NoSeed
  /\ isMouseDown = FALSE
  /\ draggingHue = FALSE
  /\ loupe = [x |-> DefaultLoupeX, y |-> DefaultLoupeY]
  /\ hue = 0
  /\ \/ /\ hexInput \in HexTexts
        /\ rgbInputs = << <<>>, <<>>, <<>> >>
     \/ /\ hexInput = <<>>
        /\ \E r \in Channels, g \in Channels, b \in Channels :
             rgbInputs = <<Str(r), Str(g), Str(b)>>
  /\ canvas = BlankCanvas
  /\ connected = FALSE
  /\ emitted = <<>>
  /\ lastOp = [op |-> "constructor", done |-> TRUE, at |-> <<>>, text |-> <<>>,
               read |-> <<>>]
  /\ held = [plane |-> FALSE, hue |-> FALSE]

\* rgbToHex(hexToRgb(s)) for the hex text s of the HEX field
HexRoundTrip ==
  /\ lastOp.op = "constructor"
  /\ hexInput # <<>>
  /\ \E c \in {hexToRgb(hexInput)} :
       /\ hexInput' = IF c = <<>> THEN <<>> ELSE rgbToHex(c[1], c[2], c[3])
       /\ lastOp' = [op |-> "HexRoundTrip", done |-> c # <<>>, at |-> <<>>,
                     text |-> <<hexInput>>, read |-> <<>>]
  /\ UNCHANGED <<Config, held, isMouseDown, draggingHue, loupe, hue, rgbInputs,
                 canvas, connected, emitted>>

\* hexToRgb(rgbToHex(r, g, b)) for the channels r, g, b of the RGB fields
RgbRoundTrip ==
  /\ lastOp.op = "constructor"
  /\ hexInput = <<>>
  /\ \E c \in {hexToRgb(rgbToHex(FieldColor(rgbInputs)[1],
                                   FieldColor(rgbInputs)[2],
                                   FieldColor(rgbInputs)[3]))} :
       /\ rgbInputs' = IF c = <<>> THEN << <<>>, <<>>, <<>> >>
                       ELSE <<Str(c[1]), Str(c[2]), Str(c[3])>>
       /\ lastOp' = [op |-> "RgbRoundTrip", done |-> c # <<>>,
                     at |-> FieldColor(rgbInputs), text |-> <<>>,
                     read |-> <<>>]
  /\ UNCHANGED <<Config, held, isMouseDown, draggingHue, loupe, hue, hexInput,
                 canvas, connected, emitted>>

ConvNext == HexRoundTrip \/ RgbRoundTrip

ConvSpec == ConvInit /\ [][ConvNext]_vars

\* a hex digit in lower case
ToLower(ch) ==
  IF \E i \in 1..16 : UpperHex[i] = ch
    THEN LowerHex[CHOOSE i \in 1..16 : UpperHex[i] = ch]
  ELSE ch

\* s lowercased, with a leading "#"
Canonical(t) ==
  LET body == IF t[1] = "#" THEN Tail(t) ELSE t
  IN <<"#">> \o [i \in 1..Len(body) |-> ToLower(body[i])]

\* C16: rgbToHex(hexToRgb(s)) is s lowercased with a leading "#" for every s
\* made of an optional "#" and six hex digits, and hexToRgb(rgbToHex(r, g, b))
\* is (r, g, b) for channels in 0..255.
C16_HexRoundTrips ==
  /\ lastOp.op = "HexRoundTrip" =>
       lastOp.done /\ hexInput = Canonical(lastOp.text[1])
  /\ lastOp.op = "RgbRoundTrip" =>
       /\ lastOp.done
       /\ FieldsNumeric(rgbInputs)
       /\ FieldColor(rgbInputs) = lastOp.at

\* "FfA07b", upper case and without "#", has come back as "#ffa07b"
C16_Witness ==
  /\ lastOp.op = "HexRoundTrip"
  /\ lastOp.text = << <<"F","f","A","0","7","b">> >>
  /\ hexInput = <<"#","f","f","a","0","7","b">>

InRange(c) == \A i \in 1..3 : c[i] \in 0..MaxChannel

\* C17: the stored hue stays in 0..359: a step that starts with such a hue
\* and ends with an in-range colour in the fields (committed or sampled)
\* ends with such a hue, whatever the hue-bar coordinate.
C17_HueBelow360 ==
  [][(/\ hue \in 0..359
      /\ FieldsNumeric(rgbInputs')
      /\ InRange(FieldColor(rgbInputs'))) => hue' \in 0..359]_vars

(* C18: after any sequence of mousedown, mousemove, mouseup, disconnect    *)
(* and connect events, a mousemove over the plane changes state and emits  *)
(* a notification only if a plane mousedown has occurred with no mouseup   *)
(* since, and a mousemove over the hue bar acts only between a hue-bar     *)
(* mousedown and the next mouseup.  A mouseup counts whether or not the    *)
(* component was connected to hear it.                                     *)
MoveActs == emitted' # <<>> \/ <<loupe, canvas, rgbInputs, hexInput, hue>>' #
                                <<loupe, canvas, rgbInputs, hexInput, hue>>

C18_MoveOnlyWhileHeld ==
  [][/\ (lastOp'.op = "onMouseMove" /\ MoveActs) => held.plane
     /\ (lastOp'.op = "onHueMouseMove" /\ MoveActs) => held.hue]_vars

(* C19: pressing the plane twice in a row at the same (x,y), with no other *)
(* input between the two presses, is idempotent: the colour and the hue    *)
(* after the second press equal those after the first press, from every    *)
(* reachable state.                                                        *)
SecondPress ==
  /\ lastOp.op = "onMouseDown"
  /\ lastOp'.op = "onMouseDown"
  /\ lastOp'.at = lastOp.at

C19_PressIsIdempotent ==
  [][SecondPress => (rgbInputs' = rgbInputs /\ hexInput' = hexInput /\ hue' = hue)]_vars

=============================================================================
